---- MODULE Spec2Model ----
(***************************************************************************)
(* Model of the LMS credential validation framework of najeeta/backend:    *)
(*   services/lms_validators/base.py             (ValidationResult,        *)
(*                                                BaseLMSValidator)        *)
(*   services/lms_validators/canvas_validator.py (CanvasValidator)         *)
(*   services/lms_validators/validator_factory.py (LMSValidatorFactory)    *)
(*   routers/lms_connections.py, services/lms_connection_service.py        *)
(*   utils/security.py                           (mask_credential)         *)
(*                                                                         *)
(* Specifications.                                                         *)
(*  - Spec:           one validator, constructed directly, and its         *)
(*                    validate() run.                                      *)
(*  - SpecApi:        Spec with the lms-connections endpoints.             *)
(*  - SpecFactory:    the factory operations, one call at a time.          *)
(*  - SpecPair:       two validate() runs fed the same remote outcomes.    *)
(*  - SpecConcurrent: the factory called from several threads.             *)
(*  - SpecRequest:    a validator constructed directly or by the factory,  *)
(*                    and its validate() run.                              *)
(*  - SpecMask:       mask_credential applied to a credential.             *)
(*  - SpecShared:     two validators constructed on one dict and run on    *)
(*                    two threads.                                         *)
(*                                                                         *)
(* Conventions.                                                            *)
(*  - A Python str whose characters matter (base_url, api_token) is a      *)
(*    sequence of one-character strings; a message is a sequence of text   *)
(*    chunks, a formatted value being spliced in between literal chunks.   *)
(*  - A credential value carries its Python type: [type, val].             *)
(*  - Optional[x] is <<>> for None and <<x>> for a value.                  *)
(*  - A dict with string keys and mixed values (details) is a set of       *)
(*    <<key, value>> pairs, value a sequence of chunks.                    *)
(*  - "Exception" means a class derived from Exception, which is what      *)
(*    `except Exception` catches; an exception is [cls, text].             *)
(***************************************************************************)
EXTENDS Integers, Sequences, FiniteSets, TLC

VARIABLES
    pc,           \* position of the request: idle, raised, ready, perm, meta, done
    kind,         \* concrete validator class of the instance: "canvas" | "double" | "none"
    credentials,  \* the credential dict object (shared by caller and validator)
    input,        \* the dict's contents as they were passed to the constructor
    renorm,       \* TRUE when the constructor was last given an already normalized bundle
    ctorErr,      \* exception raised by the last construction (NoExc if none)
    calls,        \* contract operations invoked by the current validate() run
    remote,       \* remote LMS calls issued by the current validate() run
    stepRemote,   \* outcomes of the remote calls of the last contract operation
    tcOut,        \* what test_connection did in this run
    cpOut,        \* what check_permissions did in this run
    mdOut,        \* what _get_connection_metadata did in this run
    result,       \* Optional[ValidationResult] returned by validate()
    escaped,      \* TRUE when validate() let an exception propagate to its caller
    db,           \* rows of the lms_connections table
    response,     \* HTTP status of the last lms-connections request (0 before any)
    registry,     \* LMSValidatorFactory._validators, in insertion order
    factoryOut,   \* what the last call of a factory operation did
    pair,         \* two validate() runs that are fed the same remote outcomes
    readers,      \* threads that are inside a reading operation of the factory
    masked,       \* the last call of mask_credential: its arguments and its output
    shared        \* one credential dict and the two validators constructed on it

valVars == <<pc, kind, credentials, input, renorm, ctorErr, calls, remote,
             stepRemote, tcOut, cpOut, mdOut, result, escaped>>
apiVars == <<db, response>>
factoryVars == <<registry, factoryOut>>
\* everything that is not part of the validator instance at hand
outerVars == <<db, response, registry, factoryOut, pair, readers, masked, shared>>
vars == <<pc, kind, credentials, input, renorm, ctorErr, calls, remote,
          stepRemote, tcOut, cpOut, mdOut, result, escaped, db, response,
          registry, factoryOut, pair, readers, masked, shared>>

----------------------------------------------------------------------------
(* Bounds of the model                                                     *)

\* longest path part of a base_url after its scheme prefix
MaxUrlBody == 2
\* most whitespace characters on either side of an api_token
MaxPad == 1
\* token cores run from MinTokenLength - 1 to MinTokenLength + MaxTokenExtra characters
MaxTokenExtra == 1
\* leading characters of a type tag whose letter case the caller varies freely
MaxCasePrefix == 1
\* longest credential handed to mask_credential
MaxCredentialLen == 5
\* largest visible_chars handed to mask_credential
MaxVisible == 2
\* longest missing-permission list a test double reports
MaxMissing == 2
\* most rows kept in the lms_connections table
MaxRecords == 1

----------------------------------------------------------------------------
(* Python values                                                           *)

None == <<>>
Some(x) == <<x>>

Range(s) == {s[i] : i \in 1..Len(s)}

Repeat(ch, n) == [i \in 1..n |-> ch]

SeqsUpTo(S, n) == UNION {[1..k -> S] : k \in 0..n}

Str(s) == [type |-> "str", val |-> s]

\* a non-string value (an int); val <<>> is 0, anything else is non-zero
IntVal(s) == [type |-> "int", val |-> s]

\* Python truthiness of a credential value: "" and 0 are falsy
Truthy(v) == v.val # <<>>

\* str.startswith(prefix)
StartsWith(s, p) == Len(s) >= Len(p) /\ SubSeq(s, 1, Len(p)) = p

\* str.startswith((p1, p2, ...))
StartsWithAny(s, ps) == \E p \in ps : StartsWith(s, p)

RECURSIVE RStrip(_, _)
\* str.rstrip(chars): drop every trailing character that is in chars
RStrip(s, chars) ==
    IF s # <<>> /\ s[Len(s)] \in chars THEN RStrip(SubSeq(s, 1, Len(s) - 1), chars) ELSE s

RECURSIVE LStrip(_, _)
LStrip(s, chars) ==
    IF s # <<>> /\ s[1] \in chars THEN LStrip(SubSeq(s, 2, Len(s)), chars) ELSE s

Whitespace == {" "}

\* str.strip()
Strip(s) == LStrip(RStrip(s, Whitespace), Whitespace)

\* a plausible slip: only the first item reaches the message
JoinFirstOnly(items, sep) == IF items = <<>> THEN <<>> ELSE <<items[1]>>

RECURSIVE Join(_, _)
\* sep.join(items), as the sequence of its chunks
Join(items, sep) ==
    IF items = <<>> THEN <<>>
    ELSE IF Len(items) = 1 THEN <<items[1]>>
    ELSE <<items[1], sep>> \o Join(SubSeq(items, 2, Len(items)), sep)

NoExc == [cls |-> "", text |-> <<>>]
Exc(cls, text) == [cls |-> cls, text |-> text]

----------------------------------------------------------------------------
(* Credential bundles                                                      *)

Http == <<"h", "t", "t", "p", ":", "/", "/">>
Https == <<"h", "t", "t", "p", "s", ":", "/", "/">>
Ftp == <<"f", "t", "p", ":", "/", "/">>

EmptyBundle == [k \in {} |-> Str(<<>>)]

Bundle(u, t) == [k \in {"base_url", "api_token"} |-> IF k = "base_url" THEN u ELSE t]

SetField(c, key, v) == [k \in DOMAIN c \cup {key} |-> IF k = key THEN v ELSE c[k]]

\* base_url values the caller may send
UrlValues ==
    {Str(p \o b) : p \in {Http, Https, Ftp, <<>>}, b \in SeqsUpTo({"x", "/"}, MaxUrlBody)}
    \cup {IntVal(<<"7">>)}

\* the token length below which CanvasValidator rejects the token
MinTokenLength == 10

\* api_token values the caller may send
TokenValues ==
    {Str(Repeat(" ", l) \o Repeat("T", n) \o Repeat(" ", r)) :
        l \in 0..MaxPad, r \in 0..MaxPad,
        n \in {0} \cup ((MinTokenLength - 1)..(MinTokenLength + MaxTokenExtra))}
    \cup {IntVal(<<>>), IntVal(<<"7">>)}

\* credential bundles the caller may send
Bundles ==
    {Bundle(u, t) : u \in UrlValues, t \in TokenValues}
    \cup {[k \in {"base_url"} |-> u] : u \in UrlValues}
    \cup {[k \in {"api_token"} |-> t] : t \in TokenValues}
    \cup {EmptyBundle}

----------------------------------------------------------------------------
(* CanvasValidator.validate_credentials_structure                          *)

InvalidCredentials(text) == Exc("InvalidCredentialsError", text)

\* outcome of structural validation: the exception raised (NoExc when it returns)
\* and the contents the dict object is left with
Structure(exc, creds) == [exc |-> exc, creds |-> creds]

\* canvas_validator.py 42-48: the first required field the dict lacks ("" if none)
MissingField(c) ==
    IF "base_url" \notin DOMAIN c THEN "base_url"
    ELSE IF "api_token" \notin DOMAIN c THEN "api_token"
    ELSE ""

\* a plausible slip: one message for both fields, naming neither
MissingFieldErrorUnnamed(field) ==
    InvalidCredentials(<<"Missing required field in credentials">>)

\* canvas_validator.py 44, 48: InvalidCredentialsError(f"Missing '{field}' in credentials")
MissingFieldError(field) ==
    InvalidCredentials(<<"Missing '", field, "' in credentials">>)

\* CanvasValidator.validate_credentials_structure on a dict holding c
ValidateCredentialsStructure(c) ==
    IF MissingField(c) # ""
    THEN Structure(MissingFieldError(MissingField(c)), c)
    ELSE IF ~Truthy(c["api_token"]) \/ c["api_token"].type # "str"
    THEN Structure(InvalidCredentials(<<"api_token", " must be a non-empty string">>), c)
    ELSE
      LET api_token_stripped == Strip(c["api_token"].val)
          \* the token is written back as soon as it is trimmed
          c1 == IF api_token_stripped # c["api_token"].val
                THEN SetField(c, "api_token", Str(api_token_stripped))
                ELSE c
          base_url == c1["base_url"]
      IN IF Len(api_token_stripped) < MinTokenLength
         THEN Structure(InvalidCredentials(
                  <<"API token appears to be invalid - Canvas tokens are typically 60+ characters long. ",
                    "Please verify you copied the complete token from Canvas.">>), c1)
         ELSE IF base_url.type # "str"
         \* base_url.startswith on a value that has no such method
         THEN Structure(Exc("AttributeError", <<"object has no attribute 'startswith'">>), c1)
         ELSE IF ~StartsWithAny(base_url.val, {Http, Https})
         THEN Structure(InvalidCredentials(
                  <<"base_url", " must start with ", "http://", " or ", "https://">>), c1)
         ELSE Structure(NoExc, SetField(c1, "base_url", Str(RStrip(base_url.val, {"/"}))))

\* structural validation of a test double: the contract lets it accept or reject
\* the bundle; this one leaves the bundle as it is
DoubleStructure(c, accept) ==
    Structure(IF accept THEN NoExc ELSE InvalidCredentials(<<"rejected by the double">>), c)

----------------------------------------------------------------------------
(* ValidationResult and the results BaseLMSValidator.validate builds       *)

ValidationResult(is_valid, message, details, missing_permissions) ==
    [is_valid |-> is_valid, message |-> message, details |-> details,
     missing_permissions |-> missing_permissions]

\* a plausible slip: the failure result carries an empty list, not None
ConnectionFailedResultEmptyList(conn_msg) ==
    ValidationResult(FALSE, conn_msg, {}, Some(<<>>))

\* base.py 81-86: test_connection reported failure
ConnectionFailedResult(conn_msg) ==
    ValidationResult(FALSE, conn_msg, {}, None)

\* base.py 90-96: check_permissions reported failure
PermissionsFailedResult(missing) ==
    ValidationResult(FALSE, <<"Missing required permissions: ">> \o Join(missing, ", "),
                     {}, Some(missing))

\* base.py 101-105: all three steps returned
SuccessResult(metadata) ==
    ValidationResult(TRUE, <<"Connection validated successfully">>, metadata, None)

\* base.py 107-112: an exception escaped one of the steps
ExceptionResult(e) ==
    ValidationResult(FALSE, <<"Validation failed: ">> \o e.text,
                     {<<"error_type", <<e.cls>>>>}, None)

\* canvasapi.exceptions: CanvasException and the subclasses the validator names
CanvasExceptionClasses ==
    {"CanvasException", "InvalidAccessToken", "Unauthorized", "Forbidden", "ResourceDoesNotExist"}

\* the exception classes of the model; each derives from Exception
ExceptionClasses ==
    CanvasExceptionClasses
    \cup {"ConnectionError", "RuntimeError", "KeyError", "AttributeError", "InvalidCredentialsError"}

\* a plausible slip: `except LMSValidationError`, which lets every other class through
CaughtOnlyValidationErrors(e) == e.cls \in {"InvalidCredentialsError"}

\* `except Exception as e` (base.py 107)
CaughtByValidate(e) == e.cls \in ExceptionClasses

----------------------------------------------------------------------------
(* Outcomes of the contract operations                                     *)

NotCalled == [kind |-> "none", ok |-> FALSE, msg |-> <<>>, missing |-> <<>>,
              meta |-> {}, exc |-> NoExc]
\* test_connection returned (ok, msg)
TcRet(ok, msg) == [NotCalled EXCEPT !.kind = "ret", !.ok = ok, !.msg = msg]
\* check_permissions returned (ok, missing)
CpRet(ok, missing) == [NotCalled EXCEPT !.kind = "ret", !.ok = ok, !.missing = missing]
\* _get_connection_metadata returned meta
MdRet(meta) == [NotCalled EXCEPT !.kind = "ret", !.ok = TRUE, !.meta = meta]
\* the operation raised e
Raised(e) == [NotCalled EXCEPT !.kind = "raise", !.exc = e]
----------------------------------------------------------------------------
(* CanvasValidator: the three contract operations.  Each takes the         *)
(* outcomes of the client construction and of the remote calls it may      *)
(* issue: "ok", "empty" (a listing that returned no item) or the class of  *)
(* the exception the call raised.                                          *)

\* str(e) of an exception raised by the canvasapi client or the transport
RemoteExc(cls) == Exc(cls, <<"remote:" \o cls>>)

\* canvas_validator.py 26-31
REQUIRED_PERMISSIONS == <<"read_courses", "read_students", "read_assignments">>

\* outcomes of Canvas(base_url, api_token)
ClientOutcomes == {"ok", "ConnectionError", "RuntimeError"}
\* outcomes of a remote call that returns one object
CallOutcomes ==
    {"ok", "InvalidAccessToken", "Unauthorized", "Forbidden", "ResourceDoesNotExist",
     "CanvasException", "ConnectionError", "RuntimeError"}
\* outcomes of a remote call that returns a listing
ListOutcomes == CallOutcomes \cup {"empty"}

AuthorizationClasses == {"Unauthorized", "Forbidden"}

NoRemote == [client |-> "notcalled", user |-> "notcalled", courses |-> "notcalled",
             students |-> "notcalled", assignments |-> "notcalled", accounts |-> "notcalled"]

\* what one contract operation did: its outcome, the remote calls it issued, and
\* the outcomes those calls had
Step(out, issued, seen) == [out |-> out, issued |-> issued, seen |-> seen]

\* a plausible slip: the curl hint is formatted with the token itself
InvalidTokenMessageWithToken(c) ==
    <<"Invalid API token. Please verify: 1) The token was copied correctly without extra spaces or line breaks. 2) The token has not been deleted or expired in Canvas. 3) The token is for the correct Canvas instance (canvas.instructure.com vs. your school's instance). To test your token manually, try: curl -H 'Authorization: Bearer ">>
      \o c["api_token"].val \o <<"' ">> \o c["base_url"].val \o <<"/api/v1/users/self">>

\* canvas_validator.py 115-122: the message of the InvalidAccessToken handler
InvalidTokenMessage(c) ==
    <<"Invalid API token. Please verify: 1) The token was copied correctly without extra spaces or line breaks. 2) The token has not been deleted or expired in Canvas. 3) The token is for the correct Canvas instance (canvas.instructure.com vs. your school's instance). To test your token manually, try: curl -H 'Authorization: Bearer YOUR_TOKEN' ">>
      \o c["base_url"].val \o <<"/api/v1/users/self">>

\* a plausible slip: test_connection without its try block, so that whatever the
\* client construction or the identity lookup raises leaves the operation
CanvasTestConnectionUnguarded(c, client, user) ==
    LET first == IF client # "ok" THEN client ELSE user
        issued == IF client = "ok" THEN <<"get_current_user">> ELSE <<>>
        seen == IF client = "ok" THEN [NoRemote EXCEPT !.client = client, !.user = user]
                ELSE [NoRemote EXCEPT !.client = client]
    IN Step(IF first = "ok" THEN TcRet(TRUE, <<"Connection successful">>)
            ELSE Raised(RemoteExc(first)),
            issued, seen)

\* canvas_validator.py 85-143
CanvasTestConnection(c, client, user) ==
    LET base_url == c["base_url"].val
        first == IF client # "ok" THEN client ELSE user
        issued == IF client = "ok" THEN <<"get_current_user">> ELSE <<>>
        seen == IF client = "ok" THEN [NoRemote EXCEPT !.client = client, !.user = user]
                ELSE [NoRemote EXCEPT !.client = client]
        out ==
          CASE first = "ok" -> TcRet(TRUE, <<"Connection successful">>)
            [] first = "InvalidAccessToken" ->
                 TcRet(FALSE, InvalidTokenMessage(c))
            [] first = "Unauthorized" ->
                 TcRet(FALSE, <<"Unauthorized - The API token exists but does not have permission to access Canvas. Please ensure the token was generated from your Canvas account settings and has not been revoked.">>)
            [] first = "Forbidden" ->
                 TcRet(FALSE, <<"Forbidden - API token does not have required permissions">>)
            [] first = "ResourceDoesNotExist" ->
                 TcRet(FALSE, <<"Canvas API endpoint not found. Please verify the base URL">>)
            [] first = "ConnectionError" ->
                 TcRet(FALSE, <<"Could not connect to Canvas instance. Please verify the base URL">>)
            [] first \in CanvasExceptionClasses
               /\ first \notin {"InvalidAccessToken", "Unauthorized", "Forbidden", "ResourceDoesNotExist"} ->
                 TcRet(FALSE, <<"Canvas API error: ">> \o RemoteExc(first).text)
            [] OTHER -> TcRet(FALSE, <<"Connection error: ">> \o RemoteExc(first).text)
    IN Step(out, issued, seen)

\* a plausible slip: the handlers of the outer try report failure with nothing
\* in the missing list
PermissionCheckErrorEmptyList(cls) == CpRet(FALSE, <<>>)

\* canvas_validator.py 220-226: the handlers of the outer try of check_permissions
PermissionCheckError(cls) ==
    IF cls \in CanvasExceptionClasses
    THEN CpRet(FALSE, <<"Permission check failed: " \o RemoteExc(cls).text[1]>>)
    ELSE CpRet(FALSE, <<"Unexpected error during permission check: " \o RemoteExc(cls).text[1]>>)

\* a plausible slip: every capability is reported missing when courses cannot be read
CoursesDeniedAll ==
    Step(CpRet(FALSE, <<"read_courses", "read_students", "read_assignments">>),
         <<"get_courses">>, NoRemote)

\* canvas_validator.py 165-177: the course listing raised an authorization-class error
CoursesDenied == Step(CpRet(FALSE, <<"read_courses">>), <<"get_courses">>, NoRemote)

\* a plausible slip: the probes run whether or not the listing returned a course
CanvasCheckPermissionsEagerProbes(c, client, courses, students, assignments) ==
    LET seen0 == [NoRemote EXCEPT !.client = client]
        seen1 == [seen0 EXCEPT !.courses = courses]
        seen3 == [seen1 EXCEPT !.students = students, !.assignments = assignments]
        missing1 == IF students \in AuthorizationClasses THEN <<"read_students">> ELSE <<>>
        missing2 == IF assignments \in AuthorizationClasses
                    THEN Append(missing1, "read_assignments") ELSE missing1
    IN IF client # "ok" THEN Step(PermissionCheckError(client), <<>>, seen0)
       ELSE IF courses \in AuthorizationClasses
       THEN [CoursesDenied EXCEPT !.seen = seen1]
       ELSE IF courses \notin {"ok", "empty"}
       THEN Step(PermissionCheckError(courses), <<"get_courses">>, seen1)
       ELSE IF students \notin {"ok", "empty"} \cup AuthorizationClasses
       THEN Step(PermissionCheckError(students), <<"get_courses", "get_users">>, seen3)
       ELSE IF assignments \notin {"ok", "empty"} \cup AuthorizationClasses
       THEN Step(PermissionCheckError(assignments),
                 <<"get_courses", "get_users", "get_assignments">>, seen3)
       ELSE Step(IF missing2 # <<>> THEN CpRet(FALSE, missing2) ELSE CpRet(TRUE, <<>>),
                 <<"get_courses", "get_users", "get_assignments">>, seen3)

\* canvas_validator.py 145-226
CanvasCheckPermissions(c, client, courses, students, assignments) ==
    LET seen0 == [NoRemote EXCEPT !.client = client]
        seen1 == [seen0 EXCEPT !.courses = courses]
        seen2 == [seen1 EXCEPT !.students = students]
        seen3 == [seen2 EXCEPT !.assignments = assignments]
        missing1 == IF students \in AuthorizationClasses THEN <<"read_students">> ELSE <<>>
        missing2 == IF assignments \in AuthorizationClasses
                    THEN Append(missing1, "read_assignments") ELSE missing1
    IN IF client # "ok" THEN Step(PermissionCheckError(client), <<>>, seen0)
       ELSE IF courses \in AuthorizationClasses
       THEN [CoursesDenied EXCEPT !.seen = seen1]
       ELSE IF courses \notin {"ok", "empty"}
       THEN Step(PermissionCheckError(courses), <<"get_courses">>, seen1)
       ELSE IF courses = "empty"
       THEN Step(CpRet(TRUE, <<>>), <<"get_courses">>, seen1)
       ELSE IF students \notin {"ok", "empty"} \cup AuthorizationClasses
       THEN Step(PermissionCheckError(students), <<"get_courses", "get_users">>, seen2)
       ELSE IF assignments \notin {"ok", "empty"} \cup AuthorizationClasses
       THEN Step(PermissionCheckError(assignments),
                 <<"get_courses", "get_users", "get_assignments">>, seen3)
       ELSE Step(IF missing2 # <<>> THEN CpRet(FALSE, missing2) ELSE CpRet(TRUE, <<>>),
                 <<"get_courses", "get_users", "get_assignments">>, seen3)

IdentityFields == {"canvas_user_id", "canvas_user_name", "canvas_user_email"}
AccountFields == {"canvas_account_id", "canvas_account_name"}

Keys(details) == {kv[1] : kv \in details}

\* a plausible slip: a failed account fetch discards what was collected before it
CanvasGetConnectionMetadataLosesIdentity(c, client, user, accounts) ==
    LET base == {<<"canvas_instance", c["base_url"].val>>, <<"validated_at", <<"utcnow">>>>}
        identity == {<<k, <<"user." \o k>>>> : k \in IdentityFields}
        account == {<<k, <<"account." \o k>>>> : k \in AccountFields}
        seen0 == [NoRemote EXCEPT !.client = client]
        seen1 == [seen0 EXCEPT !.user = user]
        seen2 == [seen1 EXCEPT !.accounts = accounts]
    IN IF client # "ok" THEN Step(MdRet(base), <<>>, seen0)
       ELSE IF user # "ok" THEN Step(MdRet(base), <<"get_current_user">>, seen1)
       ELSE IF accounts = "ok"
       THEN Step(MdRet(base \cup identity \cup account),
                 <<"get_current_user", "get_accounts">>, seen2)
       ELSE IF accounts = "empty"
       THEN Step(MdRet(base \cup identity), <<"get_current_user", "get_accounts">>, seen2)
       ELSE Step(MdRet(base), <<"get_current_user", "get_accounts">>, seen2)

\* a plausible slip: metadata collection without its outer try block
CanvasGetConnectionMetadataUnguarded(c, client, user, accounts) ==
    LET base == {<<"canvas_instance", c["base_url"].val>>, <<"validated_at", <<"utcnow">>>>}
        identity == {<<k, <<"user." \o k>>>> : k \in IdentityFields}
        account == {<<k, <<"account." \o k>>>> : k \in AccountFields}
        seen0 == [NoRemote EXCEPT !.client = client]
        seen1 == [seen0 EXCEPT !.user = user]
        seen2 == [seen1 EXCEPT !.accounts = accounts]
    IN IF client # "ok" THEN Step(Raised(RemoteExc(client)), <<>>, seen0)
       ELSE IF user # "ok" THEN Step(Raised(RemoteExc(user)), <<"get_current_user">>, seen1)
       ELSE IF accounts = "ok"
       THEN Step(MdRet(base \cup identity \cup account),
                 <<"get_current_user", "get_accounts">>, seen2)
       ELSE IF accounts \in {"empty"} \cup CanvasExceptionClasses
       THEN Step(MdRet(base \cup identity), <<"get_current_user", "get_accounts">>, seen2)
       ELSE Step(Raised(RemoteExc(accounts)), <<"get_current_user", "get_accounts">>, seen2)

\* canvas_validator.py 228-285
CanvasGetConnectionMetadata(c, client, user, accounts) ==
    LET base == {<<"canvas_instance", c["base_url"].val>>, <<"validated_at", <<"utcnow">>>>}
        identity == {<<k, <<"user." \o k>>>> : k \in IdentityFields}
        account == {<<k, <<"account." \o k>>>> : k \in AccountFields}
        seen0 == [NoRemote EXCEPT !.client = client]
        seen1 == [seen0 EXCEPT !.user = user]
        seen2 == [seen1 EXCEPT !.accounts = accounts]
    IN IF client # "ok" THEN Step(MdRet(base), <<>>, seen0)
       ELSE IF user # "ok" THEN Step(MdRet(base), <<"get_current_user">>, seen1)
       ELSE IF accounts = "ok"
       THEN Step(MdRet(base \cup identity \cup account),
                 <<"get_current_user", "get_accounts">>, seen2)
       ELSE Step(MdRet(base \cup identity), <<"get_current_user", "get_accounts">>, seen2)

----------------------------------------------------------------------------
(* A test double: any other implementation of the contract.  Its           *)
(* operations return or raise whatever the test makes them.                *)

DoubleMessages == {<<"double: up">>, <<"double: down">>}
DoublePermissions == {"perm_a", "perm_b"}
DoubleExceptions == {Exc("RuntimeError", <<"boom">>), Exc("KeyError", <<"'base_url'">>)}
DoubleMetadata == {{}, {<<"double_user", <<"u1">>>>}}

DoubleTestConnection ==
    {Step(TcRet(ok, m), <<>>, NoRemote) : ok \in BOOLEAN, m \in DoubleMessages}
    \cup {Step(Raised(e), <<>>, NoRemote) : e \in DoubleExceptions}

DoubleCheckPermissions ==
    {Step(CpRet(ok, m), <<>>, NoRemote) :
        ok \in BOOLEAN, m \in SeqsUpTo(DoublePermissions, MaxMissing)}
    \cup {Step(Raised(e), <<>>, NoRemote) : e \in DoubleExceptions}

DoubleGetConnectionMetadata ==
    {Step(MdRet(m), <<>>, NoRemote) : m \in DoubleMetadata}
    \cup {Step(Raised(e), <<>>, NoRemote) : e \in DoubleExceptions}

----------------------------------------------------------------------------
(* LMSValidatorFactory (validator_factory.py): the registry and the pure   *)
(* parts of its operations.  A type tag is a str whose characters matter;  *)
(* the registry is the class-level dict, kept in insertion order.          *)

UpperCase == <<"A", "C", "D", "E", "L", "M", "N", "O", "S", "V">>
LowerCase == <<"a", "c", "d", "e", "l", "m", "n", "o", "s", "v">>

IndexIn(s, ch) == CHOOSE i \in 1..Len(s) : s[i] = ch

\* the lowercase form of one character; a character that is no uppercase letter
\* is left as it is
LowerChar(ch) == IF ch \in Range(UpperCase) THEN LowerCase[IndexIn(UpperCase, ch)] ELSE ch
UpperChar(ch) == IF ch \in Range(LowerCase) THEN UpperCase[IndexIn(LowerCase, ch)] ELSE ch

\* a plausible slip: the tag is used as it was given
LowerUnchanged(s) == s

\* str.lower()
Lower(s) == [i \in 1..Len(s) |-> LowerChar(s[i])]

CanvasTag == <<"c", "a", "n", "v", "a", "s">>
MoodleTag == <<"m", "o", "o", "d", "l", "e">>
D2lTag == <<"d", "2", "l">>

\* the spellings of w a caller may use: any mix of cases in the leading
\* characters, and w in capitals
CaseVariants(w) ==
    {[i \in 1..Len(w) |-> IF i \in U THEN UpperChar(w[i]) ELSE w[i]] :
        U \in (SUBSET (1..MaxCasePrefix)) \cup {1..Len(w)}}

\* lms_type values a caller of the factory may pass
TagValues == UNION {CaseVariants(w) : w \in {CanvasTag, MoodleTag, D2lTag}}

\* lms_type values under which a caller registers a class
RegisteredTagValues == UNION {CaseVariants(w) : w \in {CanvasTag, MoodleTag}}

\* classes derived from BaseLMSValidator: the Canvas validator, a complete test
\* double, and a subclass that leaves abstract operations unimplemented
ValidatorClasses == {"CanvasValidator", "DoubleValidator", "PartialValidator"}

\* what a caller may pass as validator_class: a class above, a class that does not
\* derive from BaseLMSValidator, or an object that is no class
ClassArguments == ValidatorClasses \cup {"dict", "not_a_class"}

\* issubclass(validator_class, BaseLMSValidator), for a class
ExtendsBase(k) == k \in ValidatorClasses

\* classes with an abstract operation left (base.py 32-63, 114-125); calling one
\* raises TypeError before __init__ runs
Abstract(k) == k = "PartialValidator"

\* validator_factory.py 14-20
InitialRegistry == <<[key |-> CanvasTag, cls |-> "CanvasValidator"]>>

\* a plausible slip: a hard-coded list of the built-in tags
RegistryKeysBuiltin(reg) == <<CanvasTag>>

\* cls._validators.keys()
RegistryKeys(reg) == [i \in 1..Len(reg) |-> reg[i].key]

HasKey(reg, key) == \E i \in 1..Len(reg) : reg[i].key = key

\* cls._validators.get(key): the class or None
RegistryGet(reg, key) ==
    IF HasKey(reg, key)
    THEN Some(reg[CHOOSE i \in 1..Len(reg) : reg[i].key = key].cls)
    ELSE None

\* cls._validators[key] = k: an existing key keeps its place, a new one goes last
RegistrySet(reg, key, k) ==
    IF HasKey(reg, key)
    THEN [i \in 1..Len(reg) |-> IF reg[i].key = key THEN [key |-> key, cls |-> k] ELSE reg[i]]
    ELSE Append(reg, [key |-> key, cls |-> k])

RECURSIVE Flatten(_)
\* the characters of a sequence of strs, one after the other
Flatten(ss) == IF ss = <<>> THEN <<>> ELSE ss[1] \o Flatten(Tail(ss))

SupportedTypesLabel == "Supported types: "

\* validator_factory.py 40-44
UnsupportedLMSError(lms_type, reg) ==
    Exc("UnsupportedLMSError",
        <<"LMS type '">> \o lms_type \o <<"' is not supported. ", SupportedTypesLabel>>
          \o Flatten(Join(RegistryKeys(reg), <<", ">>)))

\* validator_class(credentials), validator_factory.py 46
Instantiate(k, b, accept) ==
    IF Abstract(k)
    THEN Structure(Exc("TypeError", <<"Can't instantiate abstract class ", k>>), b)
    ELSE IF k = "CanvasValidator" THEN ValidateCredentialsStructure(b)
    ELSE DoubleStructure(b, accept)

KindOf(k) == IF k = "CanvasValidator" THEN "canvas" ELSE "double"

\* register_validator (validator_factory.py 48-66): the exception it raises and the
\* registry it leaves
Registration(reg, lms_type, k) ==
    IF k = "not_a_class"
    THEN [exc |-> Exc("TypeError", <<"issubclass() arg 1 must be a class">>), reg |-> reg]
    ELSE IF ~ExtendsBase(k)
    THEN [exc |-> Exc("ValueError", <<"Validator class must extend BaseLMSValidator, got ", k>>),
          reg |-> reg]
    ELSE [exc |-> NoExc, reg |-> RegistrySet(reg, Lower(lms_type), k)]

\* the record of a factory call: the operation, its arguments, the registry it
\* found, and what it raised, built or returned
NoFactoryCall ==
    [op |-> "none", tag |-> <<>>, arg |-> "", bundle |-> EmptyBundle, accept |-> TRUE,
     before |-> <<>>, exc |-> NoExc, made |-> "none", found |-> FALSE, listed |-> <<>>]

\* one of two validate() runs that are compared: the bundle its validator holds,
\* its position and what it returned
NoRun == [creds |-> EmptyBundle, pc |-> "idle", result |-> None]
NoPair == [a |-> NoRun, b |-> NoRun]
\* threads that call the reading operations of the factory
ReaderIds == {"r1", "r2"}

\* a thread outside any factory call; inside one it carries the operation and its
\* argument, the registry contents that existed since the call began, and what the
\* call has read or raised so far
IdleReader ==
    [pc |-> "idle", op |-> "none", tag |-> <<>>, start |-> <<>>, moments |-> {},
     got |-> None, exc |-> NoExc, found |-> FALSE, listed |-> <<>>]

NoReaders == [r \in ReaderIds |-> IdleReader]

\* mask_credential has not been called
NoMask == [credential |-> <<>>, visible_chars |-> 0, out |-> <<>>]

ValidatorIds == {1, 2}

\* a validator that is about to be constructed on the shared dict; later it
\* carries the values its constructor has read (api_token, base_url), the
\* exception its constructor raised, the dict contents its validate() steps read
\* and the result validate() returned
NewValidator ==
    [pc |-> "new", api_token |-> <<>>, base_url |-> <<>>, exc |-> NoExc,
     reads |-> {}, result |-> None]

\* no dict has been handed to the two constructors yet
NoShared ==
    [started |-> FALSE, input |-> EmptyBundle, dict |-> EmptyBundle,
     v |-> [i \in ValidatorIds |-> NewValidator]]

----------------------------------------------------------------------------
(* State machine of one request                                            *)

Init ==
    /\ pc = "idle"
    /\ kind = "none"
    /\ credentials = EmptyBundle
    /\ input = EmptyBundle
    /\ renorm = FALSE
    /\ ctorErr = NoExc
    /\ calls = <<>>
    /\ remote = <<>>
    /\ stepRemote = NoRemote
    /\ tcOut = NotCalled
    /\ cpOut = NotCalled
    /\ mdOut = NotCalled
    /\ result = None
    /\ escaped = FALSE
    /\ db = {}
    /\ response = 0
    /\ registry = InitialRegistry
    /\ factoryOut = NoFactoryCall
    /\ pair = NoPair
    /\ readers = NoReaders
    /\ masked = NoMask
    /\ shared = NoShared

runVars == <<calls, remote, stepRemote, tcOut, cpOut, mdOut, result, escaped>>

\* a plausible slip: the constructor tries the connection at once
ConstructorCallsEager(k) == <<"get_current_user">>

\* remote calls issued by the constructor of a validator of kind k: __init__
\* (base.py 22-30) stores the dict and runs the structural validation, which for a
\* CanvasValidator (canvas_validator.py 33-83) builds no client and calls nothing
ConstructorCalls(k) == <<>>

\* BaseLMSValidator.__init__ (base.py 22-30): store the caller's dict, then validate
\* its structure; an exception of the structural validation leaves __init__
Constructed(k, b, s) ==
    /\ kind' = k
    /\ input' = b
    /\ credentials' = s.creds
    /\ ctorErr' = s.exc
    /\ pc' = IF s.exc = NoExc THEN "ready" ELSE "raised"
    /\ remote' = remote \o ConstructorCalls(k)
    /\ UNCHANGED <<calls, stepRemote, tcOut, cpOut, mdOut, result, escaped>>
    /\ UNCHANGED outerVars

\* CanvasValidator(credentials)
ConstructCanvas ==
    /\ pc = "idle"
    /\ \E b \in Bundles : Constructed("canvas", b, ValidateCredentialsStructure(b))
    /\ renorm' = FALSE

\* construction of a test double
ConstructDouble ==
    /\ pc = "idle"
    /\ \E accept \in BOOLEAN : Constructed("double", EmptyBundle, DoubleStructure(EmptyBundle, accept))
    /\ renorm' = FALSE

\* CanvasValidator(validator.credentials): a second validator built on the bundle a
\* successful construction left behind
ReconstructCanvas ==
    /\ pc = "ready"
    /\ kind = "canvas"
    /\ ~renorm
    /\ Constructed("canvas", credentials, ValidateCredentialsStructure(credentials))
    /\ renorm' = TRUE

\* the outcomes test_connection can have on this instance
TestConnectionOutcomes ==
    IF kind = "canvas"
    THEN {CanvasTestConnection(credentials, cl, u) : cl \in ClientOutcomes, u \in CallOutcomes}
    ELSE DoubleTestConnection

CheckPermissionsOutcomes ==
    IF kind = "canvas"
    THEN {CanvasCheckPermissions(credentials, cl, co, st, asg) :
            cl \in ClientOutcomes, co \in ListOutcomes, st \in ListOutcomes, asg \in ListOutcomes}
    ELSE DoubleCheckPermissions

GetConnectionMetadataOutcomes ==
    IF kind = "canvas"
    THEN {CanvasGetConnectionMetadata(credentials, cl, u, ac) :
            cl \in ClientOutcomes, u \in CallOutcomes, ac \in ListOutcomes}
    ELSE DoubleGetConnectionMetadata

\* base.py 107-112: what validate() returns when a step raised e
OnException(e) == IF CaughtByValidate(e) THEN Some(ExceptionResult(e)) ELSE None

\* a plausible slip: a failed connection test does not end the run
AfterTestConnectionNoShortCircuit(out) ==
    IF out.kind = "raise" THEN "done" ELSE "perm"

\* base.py 80-86: where validate() goes after test_connection, and what it returns
AfterTestConnection(out) ==
    IF out.kind = "raise" \/ ~out.ok THEN "done" ELSE "perm"

ResultOfTestConnection(out) ==
    IF out.kind = "raise" THEN OnException(out.exc)
    ELSE IF ~out.ok THEN Some(ConnectionFailedResult(out.msg))
    ELSE None

\* a plausible slip: a failed permission check does not end the run
AfterCheckPermissionsNoShortCircuit(out) ==
    IF out.kind = "raise" THEN "done" ELSE "meta"

\* base.py 89-96
AfterCheckPermissions(out) ==
    IF out.kind = "raise" \/ ~out.ok THEN "done" ELSE "meta"

ResultOfCheckPermissions(out) ==
    IF out.kind = "raise" THEN OnException(out.exc)
    ELSE IF ~out.ok THEN Some(PermissionsFailedResult(out.missing))
    ELSE None

\* base.py 99-105
ResultOfMetadata(out) ==
    IF out.kind = "raise" THEN OnException(out.exc)
    ELSE Some(SuccessResult(out.meta))

Propagates(out) == out.kind = "raise" /\ ~CaughtByValidate(out.exc)

\* validate(), step 1 (base.py 78-86)
TestConnection ==
    /\ pc = "ready"
    /\ \E s \in TestConnectionOutcomes :
        /\ calls' = Append(calls, "test_connection")
        /\ remote' = remote \o s.issued
        /\ stepRemote' = s.seen
        /\ tcOut' = s.out
        /\ result' = ResultOfTestConnection(s.out)
        /\ escaped' = Propagates(s.out)
        /\ pc' = AfterTestConnection(s.out)
    \* the record of the constructor's argument is dropped once validate() has begun
    /\ input' = credentials
    /\ renorm' = FALSE
    /\ UNCHANGED <<kind, credentials, ctorErr, cpOut, mdOut>>
    /\ UNCHANGED outerVars

\* validate(), step 2 (base.py 88-96)
CheckPermissions ==
    /\ pc = "perm"
    /\ \E s \in CheckPermissionsOutcomes :
        /\ calls' = Append(calls, "check_permissions")
        /\ remote' = remote \o s.issued
        /\ stepRemote' = s.seen
        /\ cpOut' = s.out
        /\ result' = ResultOfCheckPermissions(s.out)
        /\ escaped' = Propagates(s.out)
        /\ pc' = AfterCheckPermissions(s.out)
    /\ UNCHANGED <<kind, credentials, input, renorm, ctorErr, tcOut, mdOut>>
    /\ UNCHANGED outerVars

\* validate(), step 3 (base.py 98-105)
GetConnectionMetadata ==
    /\ pc = "meta"
    /\ \E s \in GetConnectionMetadataOutcomes :
        /\ calls' = Append(calls, "_get_connection_metadata")
        /\ remote' = remote \o s.issued
        /\ stepRemote' = s.seen
        /\ mdOut' = s.out
        /\ result' = ResultOfMetadata(s.out)
        /\ escaped' = Propagates(s.out)
        /\ pc' = "done"
    /\ UNCHANGED <<kind, credentials, input, renorm, ctorErr, tcOut, cpOut>>
    /\ UNCHANGED outerVars

Next ==
    \/ ConstructCanvas
    \/ ConstructDouble
    \/ ReconstructCanvas
    \/ TestConnection
    \/ CheckPermissions
    \/ GetConnectionMetadata

Spec == Init /\ [][Next]_vars

----------------------------------------------------------------------------
(* Claims about BaseLMSValidator.validate                                  *)

StepNames == <<"test_connection", "check_permissions", "_get_connection_metadata">>

ConnectionFailed == tcOut.kind = "ret" /\ ~tcOut.ok
ConnectionOk == tcOut.kind = "ret" /\ tcOut.ok
PermissionsFailed == ConnectionOk /\ cpOut.kind = "ret" /\ ~cpOut.ok
PermissionsOk == ConnectionOk /\ cpOut.kind = "ret" /\ cpOut.ok

\* C1: when test_connection returns failure during validate(), neither
\* check_permissions nor metadata collection is invoked in that run (no remote call
\* of theirs is issued either), and the returned result has is_valid = false, the
\* connection-test message as its message, and missing_permissions = None.
C1_ConnectionFailureShortCircuits ==
    ConnectionFailed =>
        /\ calls = <<"test_connection">>
        /\ cpOut = NotCalled /\ mdOut = NotCalled
        /\ Range(remote) \subseteq {"get_current_user"}
        /\ result # None
        /\ result[1].is_valid = FALSE
        /\ result[1].message = tcOut.msg
        /\ result[1].missing_permissions = None

C1_Witness ==
    /\ ConnectionFailed
    /\ pc = "done"
    /\ result # None

\* C2: when test_connection succeeds and check_permissions returns failure with
\* list M, validate() returns is_valid = false, missing_permissions = M and a
\* message in which every element of M occurs, and metadata collection is not
\* invoked in that run.
C2_PermissionFailureResult ==
    PermissionsFailed =>
        /\ result # None
        /\ result[1].is_valid = FALSE
        /\ result[1].missing_permissions = Some(cpOut.missing)
        /\ \A i \in 1..Len(cpOut.missing) : cpOut.missing[i] \in Range(result[1].message)
        /\ "_get_connection_metadata" \notin Range(calls)
        /\ mdOut = NotCalled

C2_Witness ==
    /\ PermissionsFailed
    /\ Len(cpOut.missing) = 2
    /\ cpOut.missing[1] # cpOut.missing[2]
    /\ result # None

\* the order half of C3: the steps run in the fixed order, each at most once, and
\* a later step is invoked only after the earlier one reported success
StepsInOrder ==
    /\ Len(calls) <= 3
    /\ calls = SubSeq(StepNames, 1, Len(calls))
    /\ Len(calls) >= 2 => ConnectionOk
    /\ Len(calls) = 3 => PermissionsOk

AllThreeCompleted == Len(calls) = 3 /\ mdOut.kind = "ret"

\* C3 as stated: the steps run in order with short-circuiting, and when all three
\* complete the result is valid with missing_permissions = None and details equal
\* to the collected metadata, which contains the remote identity fields.
C3_Original ==
    /\ StepsInOrder
    /\ AllThreeCompleted =>
        /\ result # None
        /\ result[1].is_valid = TRUE
        /\ result[1].missing_permissions = None
        /\ result[1].details = mdOut.meta
        /\ kind = "canvas" => IdentityFields \subseteq Keys(result[1].details)

\* C3, amended: as C3, but the collected metadata of a CanvasValidator contains the
\* remote identity fields only when the identity fetch made during metadata
\* collection succeeded.
C3_OrderedStepsAndSuccess ==
    /\ StepsInOrder
    /\ AllThreeCompleted =>
        /\ result # None
        /\ result[1].is_valid = TRUE
        /\ result[1].missing_permissions = None
        /\ result[1].details = mdOut.meta
        /\ (kind = "canvas" /\ stepRemote.user = "ok")
              => IdentityFields \subseteq Keys(result[1].details)

C3_Witness ==
    /\ AllThreeCompleted
    /\ kind = "canvas"
    /\ pc = "done"
    /\ result # None
    /\ result[1].is_valid
    /\ IdentityFields \subseteq Keys(result[1].details)

AnyStepRaised == \E o \in {tcOut, cpOut, mdOut} : o.kind = "raise"

\* C4: once construction has succeeded, validate() never propagates an exception:
\* an exception raised by test_connection, check_permissions or metadata
\* collection becomes a returned result with is_valid = false and
\* details = {error_type: <name of the exception's class>}.
C4_ExceptionsBecomeResults ==
    /\ escaped = FALSE
    /\ \A o \in {tcOut, cpOut, mdOut} :
          o.kind = "raise" =>
              /\ pc = "done"
              /\ result # None
              /\ result[1].is_valid = FALSE
              /\ result[1].details = {<<"error_type", <<o.exc.cls>>>>}

C4_Witness ==
    /\ mdOut.kind = "raise"
    /\ mdOut.exc.cls = "KeyError"
    /\ result # None

\* C5: if test_connection and check_permissions succeed but metadata collection
\* throws, the result returned by validate() still has is_valid = true.
C5_MetadataFailureStillValid ==
    (PermissionsOk /\ mdOut.kind = "raise") =>
        /\ result # None
        /\ result[1].is_valid = TRUE

\* C6: for every result returned by validate(), missing_permissions is set (not
\* None) if and only if is_valid is false because check_permissions reported a
\* shortfall; the results for a connection failure, for an unexpected exception and
\* for success have it unset.
C6_MissingPermissionsIffShortfall ==
    result # None =>
        /\ (result[1].missing_permissions # None) <=> PermissionsFailed
        /\ PermissionsFailed => result[1].is_valid = FALSE
        /\ (ConnectionFailed \/ AnyStepRaised \/ result[1].is_valid)
              => result[1].missing_permissions = None

C6_Witness ==
    /\ result # None
    /\ result[1].missing_permissions # None
    /\ kind = "canvas"
    /\ result[1].missing_permissions[1] = <<"read_students", "read_assignments">>

\* C8: in CanvasValidator.check_permissions, if the course listing fails with an
\* authorization-class error (Unauthorized or Forbidden), the result is
\* (false, ["read_courses"]) exactly, and neither the student listing nor the
\* assignment listing is attempted in that run.
C8_CoursesDeniedStopsProbing ==
    (kind = "canvas" /\ stepRemote.courses \in AuthorizationClasses) =>
        /\ cpOut = CpRet(FALSE, <<"read_courses">>)
        /\ stepRemote.students = "notcalled"
        /\ stepRemote.assignments = "notcalled"
        /\ "get_users" \notin Range(remote)
        /\ "get_assignments" \notin Range(remote)

C8_Witness ==
    /\ kind = "canvas"
    /\ stepRemote.courses = "Forbidden"
    /\ "get_courses" \in Range(remote)
    /\ pc = "done"

----------------------------------------------------------------------------
(* Claims about CanvasValidator construction                               *)

FailedNaming(field) ==
    /\ pc = "raised"
    /\ ctorErr.cls = "InvalidCredentialsError"
    /\ field \in Range(ctorErr.text)

\* C9 as stated: for every bundle lacking base_url, construction fails with
\* InvalidCredentialsError whose message names base_url; for every bundle lacking
\* api_token, it fails with InvalidCredentialsError whose message names api_token.
C9_Original ==
    kind = "canvas" =>
        /\ "base_url" \notin DOMAIN input => FailedNaming("base_url")
        /\ "api_token" \notin DOMAIN input => FailedNaming("api_token")

\* C9, amended: for every bundle lacking base_url, construction fails with
\* InvalidCredentialsError whose message names base_url; for every bundle that has
\* base_url and lacks api_token, it fails with InvalidCredentialsError whose
\* message names api_token.
C9_MissingFieldNamed ==
    kind = "canvas" =>
        /\ "base_url" \notin DOMAIN input => FailedNaming("base_url")
        /\ ("base_url" \in DOMAIN input /\ "api_token" \notin DOMAIN input)
              => FailedNaming("api_token")

C9_Witness ==
    /\ kind = "canvas"
    /\ pc = "raised"
    /\ DOMAIN input = {"base_url"}
    /\ "api_token" \in Range(ctorErr.text)

\* C10: normalization is idempotent: when construction succeeds on a bundle B and
\* leaves the normalized bundle B', construction on B' succeeds too and leaves the
\* bundle equal to B'.
C10_NormalizationIdempotent ==
    renorm =>
        /\ pc = "ready"
        /\ ctorErr = NoExc
        /\ credentials = input

\* the bundle held by a validator is the one the constructor left in place
CanvasConstructed == kind = "canvas" /\ pc \notin {"idle", "raised"}

\* C11: every successfully constructed CanvasValidator holds a bundle whose
\* base_url starts with http:// or https:// and has no trailing slash, and whose
\* api_token is a string without surrounding whitespace of at least
\* MinTokenLength characters; and a token that is shorter than MinTokenLength
\* after trimming makes construction fail even when the URL is well-formed.
C11_HeldBundleNormalized ==
    /\ CanvasConstructed =>
          /\ credentials["base_url"].type = "str"
          /\ StartsWithAny(credentials["base_url"].val, {Http, Https})
          /\ \/ credentials["base_url"].val = <<>>
             \/ credentials["base_url"].val[Len(credentials["base_url"].val)] # "/"
          /\ credentials["api_token"].type = "str"
          /\ credentials["api_token"].val # <<>>
          /\ credentials["api_token"].val[1] \notin Whitespace
          /\ credentials["api_token"].val[Len(credentials["api_token"].val)] \notin Whitespace
          /\ Len(credentials["api_token"].val) >= MinTokenLength
    /\ ( /\ kind = "canvas"
         /\ pc \in {"ready", "raised"}
         /\ DOMAIN input = {"base_url", "api_token"}
         /\ input["api_token"].type = "str"
         /\ Len(Strip(input["api_token"].val)) < MinTokenLength )
          => pc = "raised"

\* C22: for every credential bundle, whatever the presence and types of its field
\* values, CanvasValidator construction either succeeds or raises
\* InvalidCredentialsError; no other exception type leaves construction.
C22_OnlyInvalidCredentialsError ==
    (kind = "canvas" /\ pc = "raised") => ctorErr.cls = "InvalidCredentialsError"

\* C29: when CanvasValidator construction fails with InvalidCredentialsError, the
\* caller's credential bundle is left exactly as it was passed in: no field has
\* been trimmed or otherwise rewritten by the failed structural validation.
C29_FailedConstructionLeavesBundle ==
    (kind = "canvas" /\ pc = "raised" /\ ctorErr.cls = "InvalidCredentialsError")
        => credentials = input

----------------------------------------------------------------------------
(* Claims about the contract operations of CanvasValidator                 *)

\* the state right after test_connection of a CanvasValidator has run
AfterCanvasTestConnection == kind = "canvas" /\ calls = <<"test_connection">>

\* C16: CanvasValidator.test_connection never raises: for every outcome of the
\* client construction and of the identity lookup (success, invalid token,
\* unauthorized, forbidden, not found, transport failure, generic remote-API
\* error, any other exception) it returns (success, message), and success is
\* true only when the identity lookup returned normally.
C16_TestConnectionNeverRaises ==
    /\ kind = "canvas" => tcOut.kind # "raise"
    /\ AfterCanvasTestConnection =>
          /\ tcOut.kind = "ret"
          /\ tcOut.msg # <<>>
          /\ tcOut.ok <=> (stepRemote.client = "ok" /\ stepRemote.user = "ok")

C16_Witness ==
    /\ AfterCanvasTestConnection
    /\ stepRemote.client = "RuntimeError"
    /\ tcOut.kind = "ret"
    /\ ~tcOut.ok

\* the state right after check_permissions of a CanvasValidator has run
AfterCanvasCheckPermissions ==
    kind = "canvas" /\ calls = <<"test_connection", "check_permissions">>

\* C19: in CanvasValidator.check_permissions, when the course listing returns at
\* least one course, the student probe and the assignment probe are both
\* attempted and judged independently: read_students is in the missing list iff
\* the student probe failed with an authorization-class error, read_assignments
\* iff the assignment probe did; and an empty course listing counts as success
\* with an empty missing list.
C19_ProbesJudgedIndependently ==
    AfterCanvasCheckPermissions =>
        /\ stepRemote.courses = "ok" =>
              /\ stepRemote.students # "notcalled"
              /\ stepRemote.assignments # "notcalled"
              /\ cpOut.kind = "ret"
              /\ "read_students" \in Range(cpOut.missing)
                    <=> stepRemote.students \in AuthorizationClasses
              /\ "read_assignments" \in Range(cpOut.missing)
                    <=> stepRemote.assignments \in AuthorizationClasses
        /\ stepRemote.courses = "empty" => cpOut = CpRet(TRUE, <<>>)

\* C20: every return of CanvasValidator.check_permissions, on every path
\* including the ones taken after a remote error, has success = true exactly
\* when the missing list is empty.
C20_SuccessIffNothingMissing ==
    (kind = "canvas" /\ cpOut.kind = "ret") => (cpOut.ok <=> cpOut.missing = <<>>)

C20_Witness ==
    /\ AfterCanvasCheckPermissions
    /\ stepRemote.students = "ConnectionError"
    /\ cpOut.kind = "ret"
    /\ ~cpOut.ok
    /\ cpOut.missing # <<>>

\* no item occurs twice in the list
DuplicateFree(l) == \A i, j \in 1..Len(l) : l[i] = l[j] => i = j

\* C21: the missing list returned by CanvasValidator.check_permissions, and hence
\* missing_permissions of any result of validate(), is always a duplicate-free
\* subset of the required-capability list {read_courses, read_students,
\* read_assignments}, whatever the remote calls return or raise.
C21_MissingWithinRequired ==
    kind = "canvas" =>
        /\ cpOut.kind = "ret" =>
              /\ Range(cpOut.missing) \subseteq Range(REQUIRED_PERMISSIONS)
              /\ DuplicateFree(cpOut.missing)
        /\ (result # None /\ result[1].missing_permissions # None) =>
              /\ Range(result[1].missing_permissions[1]) \subseteq Range(REQUIRED_PERMISSIONS)
              /\ DuplicateFree(result[1].missing_permissions[1])

\* the state right after _get_connection_metadata of a CanvasValidator has run
AfterCanvasMetadata ==
    kind = "canvas"
    /\ calls = <<"test_connection", "check_permissions", "_get_connection_metadata">>

\* C26: CanvasValidator metadata collection never raises: the returned map always
\* contains canvas_instance and validated_at; the identity fields are present iff
\* the identity fetch succeeded; the account fields are present only if the
\* account fetch succeeded with a non-empty listing; and a failure of the account
\* fetch leaves the already collected identity fields in the map.
C26_MetadataBestEffort ==
    /\ kind = "canvas" => mdOut.kind # "raise"
    /\ AfterCanvasMetadata =>
          /\ mdOut.kind = "ret"
          /\ {"canvas_instance", "validated_at"} \subseteq Keys(mdOut.meta)
          /\ IdentityFields \subseteq Keys(mdOut.meta) <=> stepRemote.user = "ok"
          /\ IdentityFields \cap Keys(mdOut.meta) # {} => stepRemote.user = "ok"
          /\ AccountFields \cap Keys(mdOut.meta) # {} => stepRemote.accounts = "ok"
          /\ stepRemote.accounts \notin {"ok", "empty", "notcalled"}
                => IdentityFields \subseteq Keys(mdOut.meta)

C26_Witness ==
    /\ AfterCanvasMetadata
    /\ stepRemote.user = "ok"
    /\ stepRemote.accounts = "ConnectionError"
    /\ mdOut.kind = "ret"
    /\ IdentityFields \subseteq Keys(mdOut.meta)

Probes == {"get_users", "get_assignments"}

\* C28: in CanvasValidator.check_permissions no student-listing or
\* assignment-listing call is issued unless the course listing has already
\* returned with at least one course; when the course listing succeeds but is
\* empty, check_permissions returns (true, []) without having probed
\* read_students or read_assignments.
C28_ProbesOnlyAfterCourses ==
    kind = "canvas" =>
        /\ \A i \in 1..Len(remote) :
              remote[i] \in Probes => \E j \in 1..(i - 1) : remote[j] = "get_courses"
        /\ AfterCanvasCheckPermissions =>
              /\ Range(remote) \cap Probes # {} => stepRemote.courses = "ok"
              /\ stepRemote.courses # "ok" =>
                    /\ stepRemote.students = "notcalled"
                    /\ stepRemote.assignments = "notcalled"
              /\ stepRemote.courses = "empty" =>
                    /\ cpOut = CpRet(TRUE, <<>>)
                    /\ Range(remote) \cap Probes = {}

C28_Witness ==
    /\ AfterCanvasCheckPermissions
    /\ stepRemote.courses = "empty"
    /\ "get_courses" \in Range(remote)
    /\ cpOut.kind = "ret"
    /\ cpOut.ok

\* C30: for a successfully constructed CanvasValidator, validate() never returns a
\* result carrying error_type in details: every remote failure, of any exception
\* type, is reported either as a connection-test failure (missing_permissions
\* unset, details empty) or as a permission failure (missing_permissions set), and
\* a failure during metadata collection still yields is_valid = true.
C30_CanvasFailuresAreTyped ==
    (kind = "canvas" /\ result # None) =>
        /\ "error_type" \notin Keys(result[1].details)
        /\ ~result[1].is_valid =>
              \/ /\ ConnectionFailed
                 /\ result[1].missing_permissions = None
                 /\ result[1].details = {}
              \/ /\ PermissionsFailed
                 /\ result[1].missing_permissions # None
        /\ Len(calls) = 3 => result[1].is_valid

C30_Witness ==
    /\ AfterCanvasMetadata
    /\ stepRemote.client = "RuntimeError"
    /\ result # None
    /\ result[1].is_valid
    /\ result[1].details = mdOut.meta

----------------------------------------------------------------------------
(* The lms-connections API: routers/lms_connections.py over                *)
(* services/lms_connection_service.py                                      *)

\* lms_type values a request may carry
LmsTypes == {"canvas", "moodle"}

\* credentials a request may carry besides the bundle of the validator at hand: one
\* that fails structural validation and one that passes it
ApiBundles ==
    {EmptyBundle, Bundle(Str(Https \o <<"x">>), Str(Repeat("T", MinTokenLength)))}

\* lms_connection_service.py 25-31: the row handed to the table
Row(id, lms_type, creds) ==
    [id |-> id, instructor_id |-> "instructor-1", lms_type |-> lms_type,
     name |-> "connection", credentials |-> creds, is_active |-> TRUE]

FreeIds == (1..MaxRecords) \ {r.id : r \in db}

\* POST /lms-connections (lms_connections.py 45-81) calling
\* lms_connection_service.create_lms_connection (5-32); the insert stores the row,
\* returns no data, or raises
CreateLmsConnection ==
    /\ FreeIds # {}
    /\ \E t \in LmsTypes, b \in ApiBundles \cup {credentials},
          insert \in {"stored", "nodata", "raise"} :
          IF insert = "stored"
          THEN /\ db' = db \cup {Row(CHOOSE i \in FreeIds : \A j \in FreeIds : i <= j, t, b)}
               /\ response' = 201
          ELSE /\ db' = db
               /\ response' = 500
    /\ UNCHANGED <<valVars, factoryVars, pair, readers, masked, shared>>

\* DELETE /lms-connections/{id} (lms_connections.py 241-282) calling
\* lms_connection_service.get_lms_connection (35-45) and delete_lms_connection (127-137)
DeleteLmsConnection ==
    /\ \E id \in 1..MaxRecords :
          IF \E r \in db : r.id = id
          THEN /\ db' = {r \in db : r.id # id}
               /\ response' = 204
          ELSE /\ db' = db
               /\ response' = 404
    /\ UNCHANGED <<valVars, factoryVars, pair, readers, masked, shared>>

NextApi ==
    \/ ConstructCanvas
    \/ ConstructDouble
    \/ ReconstructCanvas
    \/ TestConnection
    \/ CheckPermissions
    \/ GetConnectionMetadata
    \/ CreateLmsConnection
    \/ DeleteLmsConnection

SpecApi == Init /\ [][NextApi]_vars

\* C7: an LMS connection row is persisted only after a validation run for that
\* lms_type and credential bundle has returned is_valid = true; a request whose
\* bundle fails structural validation, the connection test or the permission check
\* never reaches the insert.
C7_PersistedOnlyAfterValidation ==
    \A r \in db :
        /\ result # None
        /\ result[1].is_valid = TRUE
        /\ r.lms_type = kind
        /\ r.credentials = credentials

----------------------------------------------------------------------------
(* LMSValidatorFactory: the four operations, each called on its own        *)

\* credentials a caller of create may pass
FactoryBundles == ApiBundles

\* LMSValidatorFactory.create (validator_factory.py 22-46); a validator it returns
\* takes the place of the one the caller held
FactoryCreate ==
    /\ pc \in {"idle", "ready", "raised"}
    /\ \E t \in TagValues, b \in FactoryBundles, accept \in BOOLEAN :
        LET validator_class == RegistryGet(registry, Lower(t))
            call == [NoFactoryCall EXCEPT !.op = "create", !.tag = t, !.bundle = b,
                                         !.before = registry]
        IN IF validator_class = None
           THEN /\ factoryOut' = [call EXCEPT !.exc = UnsupportedLMSError(t, registry)]
                /\ UNCHANGED <<pc, kind, credentials, input, renorm, ctorErr, remote>>
           ELSE LET k == validator_class[1]
                    s == Instantiate(k, b, accept)
                IN /\ k # "DoubleValidator" => accept
                   /\ IF Abstract(k)
                      THEN /\ factoryOut' = [call EXCEPT !.exc = s.exc]
                           /\ UNCHANGED <<pc, kind, credentials, input, renorm, ctorErr, remote>>
                      ELSE /\ factoryOut' = [call EXCEPT !.exc = s.exc, !.made = k,
                                                         !.accept = accept]
                           /\ kind' = KindOf(k)
                           /\ input' = b
                           /\ credentials' = s.creds
                           /\ ctorErr' = s.exc
                           /\ pc' = IF s.exc = NoExc THEN "ready" ELSE "raised"
                           /\ renorm' = FALSE
                           /\ remote' = remote \o ConstructorCalls(KindOf(k))
    /\ UNCHANGED <<calls, stepRemote, tcOut, cpOut, mdOut, result, escaped>>
    /\ UNCHANGED <<registry, apiVars, pair, readers, masked, shared>>

\* LMSValidatorFactory.register_validator (validator_factory.py 48-66)
RegisterValidator ==
    /\ \E t \in RegisteredTagValues, k \in ClassArguments :
        LET r == Registration(registry, t, k)
        IN /\ registry' = r.reg
           /\ factoryOut' = [NoFactoryCall EXCEPT !.op = "register_validator", !.tag = t,
                                                  !.arg = k, !.before = registry,
                                                  !.exc = r.exc]
    /\ UNCHANGED <<valVars, apiVars, pair, readers, masked, shared>>

\* LMSValidatorFactory.supported_lms_types (validator_factory.py 68-76)
SupportedLmsTypes ==
    /\ factoryOut' = [NoFactoryCall EXCEPT !.op = "supported_lms_types",
                                           !.before = registry,
                                           !.listed = RegistryKeys(registry)]
    /\ UNCHANGED <<registry, valVars, apiVars, pair, readers, masked, shared>>

\* LMSValidatorFactory.is_supported (validator_factory.py 78-89)
IsSupported ==
    /\ \E t \in TagValues :
        factoryOut' = [NoFactoryCall EXCEPT !.op = "is_supported", !.tag = t,
                                            !.before = registry,
                                            !.found = HasKey(registry, Lower(t))]
    /\ UNCHANGED <<registry, valVars, apiVars, pair, readers, masked, shared>>

NextFactory ==
    \/ FactoryCreate
    \/ RegisterValidator
    \/ SupportedLmsTypes
    \/ IsSupported

SpecFactory == Init /\ [][NextFactory]_vars

\* a request whose validator is constructed directly or through the factory and
\* then validated
NextRequest ==
    \/ ConstructCanvas
    \/ ConstructDouble
    \/ FactoryCreate
    \/ TestConnection
    \/ CheckPermissions
    \/ GetConnectionMetadata

SpecRequest == Init /\ [][NextRequest]_vars

----------------------------------------------------------------------------
(* Claims about LMSValidatorFactory                                        *)

\* s has no uppercase letter
IsLowerCase(s) == \A i \in 1..Len(s) : s[i] \notin Range(UpperCase)

\* a and b differ at most in the case of their letters
SameIgnoringCase(a, b) ==
    /\ Len(a) = Len(b)
    /\ \A i \in 1..Len(a) : a[i] = b[i] \/ UpperChar(a[i]) = b[i] \/ a[i] = UpperChar(b[i])

\* the places of reg whose key is the lowercase form of tag t
PlacesOf(reg, t) ==
    {i \in 1..Len(reg) : IsLowerCase(reg[i].key) /\ SameIgnoringCase(reg[i].key, t)}

\* a bundle that meets the structural rules of CanvasValidator
WellFormed(b) ==
    /\ DOMAIN b = {"base_url", "api_token"}
    /\ b["base_url"].type = "str"
    /\ StartsWithAny(b["base_url"].val, {Http, Https})
    /\ b["api_token"].type = "str"
    /\ Len(Strip(b["api_token"].val)) >= MinTokenLength

\* a create call whose bundle is structurally valid for the class it reaches
CreateOnValidBundle ==
    /\ factoryOut.op = "create"
    /\ WellFormed(factoryOut.bundle)
    /\ factoryOut.accept

\* C12: create is case-insensitive in its type tag: for a structurally valid
\* bundle, create(t, creds) for every letter-case variant t of a registered tag
\* returns a validator of the class registered under the lowercased tag.
C12_CreateIgnoresCase ==
    CreateOnValidBundle =>
        \A i \in PlacesOf(factoryOut.before, factoryOut.tag) :
            /\ factoryOut.exc = NoExc
            /\ factoryOut.made = factoryOut.before[i].cls
            /\ kind = KindOf(factoryOut.before[i].cls)
            /\ pc = "ready"

FirstIndex(s, x) == CHOOSE i \in 1..Len(s) : s[i] = x /\ \A j \in 1..(i - 1) : s[j] # x

RECURSIVE Split(_, _)
\* str.split(sep) on a sequence of chunks
Split(s, sep) ==
    IF sep \notin Range(s) THEN <<s>>
    ELSE <<SubSeq(s, 1, FirstIndex(s, sep) - 1)>>
           \o Split(SubSeq(s, FirstIndex(s, sep) + 1, Len(s)), sep)

\* the tags a message enumerates after "Supported types: "
TagsListedIn(text) ==
    Split(SubSeq(text, FirstIndex(text, SupportedTypesLabel) + 1, Len(text)), ", ")

\* C13: create(t, creds) for a tag whose lowercase form is not registered fails
\* with UnsupportedLMSError, constructs no validator, leaves the registry
\* unchanged, and its message enumerates every tag registered at that moment,
\* the ones added by register_validator included.
C13_UnknownTagRejected ==
    (factoryOut.op = "create" /\ PlacesOf(factoryOut.before, factoryOut.tag) = {}) =>
        /\ factoryOut.exc.cls = "UnsupportedLMSError"
        /\ factoryOut.made = "none"
        /\ registry = factoryOut.before
        /\ Len(TagsListedIn(factoryOut.exc.text)) = Len(factoryOut.before)
        /\ \A i \in 1..Len(factoryOut.before) :
              TagsListedIn(factoryOut.exc.text)[i] = factoryOut.before[i].key

C13_Witness ==
    /\ factoryOut.op = "create"
    /\ factoryOut.exc.cls = "UnsupportedLMSError"
    /\ SameIgnoringCase(factoryOut.tag, D2lTag)
    /\ Len(factoryOut.before) = 2
    /\ factoryOut.before[2].key = MoodleTag

\* C14: after any sequence of register_validator, create, supported_lms_types and
\* is_supported calls, every key of the registry is lowercase and no two keys
\* differ only by letter case; and is_supported(t) is true exactly when the
\* lowercase form of t is a key.
C14_KeysLowerCase ==
    /\ \A i \in 1..Len(registry) : IsLowerCase(registry[i].key)
    /\ \A i, j \in 1..Len(registry) :
          i # j => ~SameIgnoringCase(registry[i].key, registry[j].key)
    /\ factoryOut.op = "is_supported" =>
          (factoryOut.found <=> PlacesOf(factoryOut.before, factoryOut.tag) # {})

C14_Witness ==
    /\ factoryOut.op = "register_validator"
    /\ factoryOut.exc = NoExc
    /\ ~IsLowerCase(factoryOut.tag)
    /\ Len(factoryOut.before) = 1
    /\ Len(registry) = 2

\* a class that implements all four abstract operations of the contract
Complete(k) == ExtendsBase(k) /\ ~Abstract(k)

\* C15: register_validator rejects every constructor that is not a complete
\* implementation of the four validator operations, a rejected registration
\* leaves the registry unchanged, and so every registered constructor can be
\* instantiated by create.
C15_OnlyCompleteClassesRegistered ==
    /\ (factoryOut.op = "register_validator" /\ ~Complete(factoryOut.arg)) =>
          /\ factoryOut.exc # NoExc
          /\ registry = factoryOut.before
    /\ \A i \in 1..Len(registry) : Complete(registry[i].cls)
    /\ (CreateOnValidBundle /\ PlacesOf(factoryOut.before, factoryOut.tag) # {}) =>
          factoryOut.exc.cls # "TypeError"

\* C23: constructing a validator, directly or through LMSValidatorFactory.create,
\* issues no remote call: the first remote call of a request happens only inside
\* validate(), after structural validation has completed successfully, so a
\* bundle that fails structural validation never causes a remote call.
C23_NoRemoteCallBeforeValidate ==
    /\ pc \in {"idle", "ready", "raised"} => remote = <<>>
    /\ ctorErr # NoExc => remote = <<>>
    /\ remote # <<>> =>
          /\ calls # <<>>
          /\ calls[1] = "test_connection"
          /\ ctorErr = NoExc

C23_Witness ==
    /\ factoryOut.op = "create"
    /\ factoryOut.made = "CanvasValidator"
    /\ factoryOut.exc = NoExc
    /\ calls = <<"test_connection">>
    /\ remote = <<"get_current_user">>

\* C24: after register_validator(t, C) succeeds, create(t', creds) for every
\* letter-case variant t' of t constructs an instance of C, the constructor
\* mapped to the lowercased tag before being replaced, until that tag is
\* registered again; the mappings of all other tags are unchanged by the
\* registration and no tag is ever removed.
C24_RegistrationTakesEffect ==
    /\ (factoryOut.op = "register_validator" /\ factoryOut.exc = NoExc) =>
          /\ \E i \in PlacesOf(registry, factoryOut.tag) : registry[i].cls = factoryOut.arg
          /\ \A j \in 1..Len(factoryOut.before) :
                ~SameIgnoringCase(factoryOut.before[j].key, factoryOut.tag)
                    => \E i \in 1..Len(registry) : registry[i] = factoryOut.before[j]
    /\ \A j \in 1..Len(factoryOut.before) :
          \E i \in 1..Len(registry) : registry[i].key = factoryOut.before[j].key
    /\ CreateOnValidBundle =>
          \A i \in PlacesOf(factoryOut.before, factoryOut.tag) :
              /\ factoryOut.made = factoryOut.before[i].cls
              /\ factoryOut.exc = NoExc

----------------------------------------------------------------------------
(* Two CanvasValidator.validate() runs on bundles that differ only in      *)
(* api_token, every remote call having the same outcome in both            *)

\* base_url values of the two runs: one that has nothing in common with the
\* tokens and one that carries a token's characters
PairUrls == {Str(Https \o <<"x">>), Str(Https \o Repeat("T", MinTokenLength))}

PairTokens == {t \in TokenValues : t.type = "str"}

\* both validators are constructed (base.py 22-30) on bundles that pass the
\* structural validation
PairConstruct ==
    /\ pair = NoPair
    /\ \E u \in PairUrls, ta \in PairTokens, tb \in PairTokens :
        LET sa == ValidateCredentialsStructure(Bundle(u, ta))
            sb == ValidateCredentialsStructure(Bundle(u, tb))
        IN /\ ta # tb
           /\ sa.exc = NoExc
           /\ sb.exc = NoExc
           /\ pair' = [a |-> [NoRun EXCEPT !.creds = sa.creds, !.pc = "ready"],
                       b |-> [NoRun EXCEPT !.creds = sb.creds, !.pc = "ready"]]
    /\ UNCHANGED <<valVars, apiVars, factoryVars, readers, masked, shared>>

\* validate(), step 1 (base.py 78-86), of one run
RunTestConnection(run, client, user) ==
    IF run.pc # "ready" THEN run
    ELSE LET s == CanvasTestConnection(run.creds, client, user)
         IN [run EXCEPT !.pc = AfterTestConnection(s.out),
                        !.result = ResultOfTestConnection(s.out)]

\* validate(), step 2 (base.py 88-96), of one run
RunCheckPermissions(run, client, courses, students, assignments) ==
    IF run.pc # "perm" THEN run
    ELSE LET s == CanvasCheckPermissions(run.creds, client, courses, students, assignments)
         IN [run EXCEPT !.pc = AfterCheckPermissions(s.out),
                        !.result = ResultOfCheckPermissions(s.out)]

\* validate(), step 3 (base.py 98-105), of one run
RunGetConnectionMetadata(run, client, user, accounts) ==
    IF run.pc # "meta" THEN run
    ELSE LET s == CanvasGetConnectionMetadata(run.creds, client, user, accounts)
         IN [run EXCEPT !.pc = "done", !.result = ResultOfMetadata(s.out)]

PairTestConnection ==
    /\ "ready" \in {pair.a.pc, pair.b.pc}
    /\ \E cl \in ClientOutcomes, u \in CallOutcomes :
        pair' = [a |-> RunTestConnection(pair.a, cl, u),
                 b |-> RunTestConnection(pair.b, cl, u)]
    /\ UNCHANGED <<valVars, apiVars, factoryVars, readers, masked, shared>>

PairCheckPermissions ==
    /\ "perm" \in {pair.a.pc, pair.b.pc}
    /\ \E cl \in ClientOutcomes, co \in ListOutcomes, st \in ListOutcomes, asg \in ListOutcomes :
        pair' = [a |-> RunCheckPermissions(pair.a, cl, co, st, asg),
                 b |-> RunCheckPermissions(pair.b, cl, co, st, asg)]
    /\ UNCHANGED <<valVars, apiVars, factoryVars, readers, masked, shared>>

PairGetConnectionMetadata ==
    /\ "meta" \in {pair.a.pc, pair.b.pc}
    /\ \E cl \in ClientOutcomes, u \in CallOutcomes, ac \in ListOutcomes :
        pair' = [a |-> RunGetConnectionMetadata(pair.a, cl, u, ac),
                 b |-> RunGetConnectionMetadata(pair.b, cl, u, ac)]
    /\ UNCHANGED <<valVars, apiVars, factoryVars, readers, masked, shared>>

NextPair ==
    \/ PairConstruct
    \/ PairTestConnection
    \/ PairCheckPermissions
    \/ PairGetConnectionMetadata

SpecPair == Init /\ [][NextPair]_vars

\* the str t occurs in the text s
Occurs(t, s) == \E i \in 0..(Len(s) - Len(t)) : SubSeq(s, i + 1, i + Len(t)) = t

\* the two runs are at the same point and what they returned agrees in is_valid,
\* message and missing_permissions
RunsAgree ==
    /\ pair.a.pc = pair.b.pc
    /\ (pair.a.result = None) <=> (pair.b.result = None)
    /\ pair.a.result # None =>
          /\ pair.a.result[1].is_valid = pair.b.result[1].is_valid
          /\ pair.a.result[1].message = pair.b.result[1].message
          /\ pair.a.result[1].missing_permissions = pair.b.result[1].missing_permissions

----------------------------------------------------------------------------
(* LMSValidatorFactory called from several threads.  The class holds no    *)
(* lock; one dict operation (get, keys, in, item assignment) is one step,  *)
(* and a thread can be preempted between two of them.                      *)

\* lms_type values the reading threads pass
ReaderTagValues == {CanvasTag} \cup CaseVariants(MoodleTag)

\* classes the writing thread registers
WriterClasses == {"DoubleValidator"}

ReadingOperations == {"create", "is_supported", "supported_lms_types"}

\* a thread enters create, is_supported or supported_lms_types
ReaderCall(r) ==
    /\ readers[r].pc = "idle"
    /\ \E o \in ReadingOperations, t \in ReaderTagValues :
        /\ o = "supported_lms_types" => t = CanvasTag
        /\ readers' = [readers EXCEPT ![r] =
              [IdleReader EXCEPT !.pc = "called", !.op = o,
                                 !.tag = IF o = "supported_lms_types" THEN <<>> ELSE t,
                                 !.start = registry, !.moments = {registry}]]
    /\ UNCHANGED <<valVars, apiVars, factoryVars, pair, masked, shared>>

\* create, validator_factory.py 37: the lookup; on a hit line 46 follows, which
\* does not touch the registry
ReaderLookup(r) ==
    /\ readers[r].pc = "called"
    /\ readers[r].op = "create"
    /\ LET validator_class == RegistryGet(registry, Lower(readers[r].tag))
       IN readers' = [readers EXCEPT ![r] =
             IF validator_class = None
             THEN [@ EXCEPT !.pc = "missing"]
             ELSE [@ EXCEPT !.pc = "done", !.got = validator_class,
                            !.exc = Instantiate(validator_class[1],
                                                CHOOSE b \in FactoryBundles : b # EmptyBundle,
                                                TRUE).exc]]
    /\ UNCHANGED <<valVars, apiVars, factoryVars, pair, masked, shared>>

\* create, validator_factory.py 39-44: the keys are read for the message
ReaderRaiseUnsupported(r) ==
    /\ readers[r].pc = "missing"
    /\ readers' = [readers EXCEPT ![r] =
          [@ EXCEPT !.pc = "done", !.exc = UnsupportedLMSError(readers[r].tag, registry)]]
    /\ UNCHANGED <<valVars, apiVars, factoryVars, pair, masked, shared>>

\* is_supported, validator_factory.py 89
ReaderIsSupported(r) ==
    /\ readers[r].pc = "called"
    /\ readers[r].op = "is_supported"
    /\ readers' = [readers EXCEPT ![r] =
          [@ EXCEPT !.pc = "done", !.found = HasKey(registry, Lower(readers[r].tag))]]
    /\ UNCHANGED <<valVars, apiVars, factoryVars, pair, masked, shared>>

\* supported_lms_types, validator_factory.py 76
ReaderSupportedLmsTypes(r) ==
    /\ readers[r].pc = "called"
    /\ readers[r].op = "supported_lms_types"
    /\ readers' = [readers EXCEPT ![r] =
          [@ EXCEPT !.pc = "done", !.listed = RegistryKeys(registry)]]
    /\ UNCHANGED <<valVars, apiVars, factoryVars, pair, masked, shared>>

\* the call returns or raises to its caller
ReaderReturn(r) ==
    /\ readers[r].pc = "done"
    /\ readers' = [readers EXCEPT ![r] = IdleReader]
    /\ UNCHANGED <<valVars, apiVars, factoryVars, pair, masked, shared>>

\* register_validator (validator_factory.py 48-66) on the writing thread; every
\* call in progress has one more registry content in its span
WriterRegister ==
    /\ \E t \in RegisteredTagValues, k \in WriterClasses :
        LET reg == Registration(registry, t, k).reg
        IN /\ reg # registry
           /\ registry' = reg
           /\ readers' = [r \in ReaderIds |->
                 IF readers[r].pc \in {"called", "missing"}
                 THEN [readers[r] EXCEPT !.moments = @ \cup {reg}]
                 ELSE readers[r]]
    /\ UNCHANGED <<valVars, apiVars, factoryOut, pair, masked, shared>>

NextConcurrent ==
    \/ \E r \in ReaderIds : ReaderCall(r)
    \/ \E r \in ReaderIds : ReaderLookup(r)
    \/ \E r \in ReaderIds : ReaderRaiseUnsupported(r)
    \/ \E r \in ReaderIds : ReaderIsSupported(r)
    \/ \E r \in ReaderIds : ReaderSupportedLmsTypes(r)
    \/ \E r \in ReaderIds : ReaderReturn(r)
    \/ WriterRegister

SpecConcurrent == Init /\ [][NextConcurrent]_vars

\* what the finished call of x has observed is what the registry content m shows
ObservedAt(x, m) ==
    CASE x.op = "create" ->
           IF x.exc.cls = "UnsupportedLMSError"
           THEN /\ PlacesOf(m, x.tag) = {}
                /\ Len(TagsListedIn(x.exc.text)) = Len(m)
                /\ \A i \in 1..Len(m) : TagsListedIn(x.exc.text)[i] = m[i].key
           ELSE \E i \in PlacesOf(m, x.tag) : x.got = Some(m[i].cls)
      [] x.op = "is_supported" -> x.found <=> PlacesOf(m, x.tag) # {}
      [] OTHER ->
           /\ Len(x.listed) = Len(m)
           /\ \A i \in 1..Len(m) : x.listed[i] = m[i].key

\* C18: the registry tolerates concurrent readers and a writer without races:
\* when create, is_supported or supported_lms_types runs concurrently with
\* register_validator, a lookup of a tag that was registered before the call
\* finds its constructor, and the tags a reader observes (the list in an
\* UnsupportedLMSError message included) are the registry content of one single
\* moment of the call, before or after the registration.
C18_ReadersSeeOneMoment ==
    \A r \in ReaderIds :
        readers[r].pc = "done" =>
            /\ (readers[r].op = "create" /\ PlacesOf(readers[r].start, readers[r].tag) # {})
                  => readers[r].got # None
            /\ \E m \in readers[r].moments : ObservedAt(readers[r], m)

----------------------------------------------------------------------------
(* utils/security.py: mask_credential                                      *)

Min(a, b) == IF a < b THEN a ELSE b
Max(a, b) == IF a > b THEN a ELSE b

\* the position a slice bound i denotes in a sequence of length n: a negative
\* bound counts from the end, and every bound is clamped to 0..n
SliceBound(i, n) == IF i < 0 THEN Max(i + n, 0) ELSE Min(i, n)

\* s[:i]
SliceTo(s, i) == SubSeq(s, 1, SliceBound(i, Len(s)))

\* s[i:]
SliceFrom(s, i) == SubSeq(s, SliceBound(i, Len(s)) + 1, Len(s))

Stars == <<"*", "*", "*">>
Dots == <<".", ".", ".">>

\* utils/security.py 9-50
mask_credential(credential, visible_chars) ==
    IF credential = <<>> \/ Len(credential) <= visible_chars THEN Stars
    ELSE IF Len(credential) <= visible_chars * 2
    THEN SliceTo(credential, visible_chars) \o Stars
    ELSE SliceTo(credential, visible_chars) \o Dots \o SliceFrom(credential, 0 - visible_chars)

\* credentials handed to mask_credential
CredentialValues == SeqsUpTo({"a", "b"}, MaxCredentialLen)

MaskCredential ==
    /\ \E c \in CredentialValues, n \in 0..MaxVisible :
        masked' = [credential |-> c, visible_chars |-> n, out |-> mask_credential(c, n)]
    /\ UNCHANGED <<valVars, apiVars, factoryVars, pair, readers, shared>>

SpecMask == Init /\ [][MaskCredential]_vars

\* out shows a leading and b trailing characters of c around an elision mark
Shows(out, c, a, b) ==
    \E mark \in {Stars, Dots} :
        out = SubSeq(c, 1, a) \o mark \o SubSeq(c, Len(c) - b + 1, Len(c))

\* C27: for every non-empty credential string c and every visible_chars N >= 0,
\* mask_credential(c, N) reveals at most the first N and the last N characters of
\* c with the rest elided; its output never contains c in full.
C27_MaskNeverRevealsAll ==
    (masked.out # <<>> /\ masked.credential # <<>>) =>
        /\ \E a, b \in 0..masked.visible_chars :
              /\ a + b <= Len(masked.credential)
              /\ Shows(masked.out, masked.credential, a, b)
        /\ ~Occurs(masked.credential, masked.out)

----------------------------------------------------------------------------
(* Two CanvasValidators constructed on one dict and run on two threads.    *)
(* __init__ keeps the caller's dict itself (base.py 29), so both           *)
(* constructors read and write the same object; one read or write of a     *)
(* dict item is one step.                                                  *)

\* the dicts handed to both constructors: one that needs trimming and slash
\* removal, one whose base_url is a bare scheme, one with a rejected scheme and one
\* with a token that is too short once trimmed
SharedBundles ==
    {Bundle(Str(Https \o <<"x", "/">>), Str(<<" ">> \o Repeat("T", MinTokenLength))),
     Bundle(Str(Http), Str(Repeat("T", MinTokenLength))),
     Bundle(Str(Ftp \o <<"x">>), Str(<<" ">> \o Repeat("T", MinTokenLength))),
     Bundle(Str(Https \o <<"x">>), Str(Repeat("T", MinTokenLength - 1) \o <<" ">>)),
     [k \in {"base_url"} |-> Str(Https \o <<"x">>)]}

\* outcomes of the remote calls in this setting
SharedCallOutcomes == {"ok", "InvalidAccessToken"}
SharedListOutcomes == {"ok", "Forbidden"}

\* the caller creates the dict
SharedBegin ==
    /\ ~shared.started
    /\ \E b \in SharedBundles :
        shared' = [NoShared EXCEPT !.started = TRUE, !.input = b, !.dict = b]
    /\ UNCHANGED <<valVars, apiVars, factoryVars, pair, readers, masked>>

\* canvas_validator.py 42-52: the key tests, the read of api_token and the test
\* of its type
CtorReadToken(i) ==
    /\ shared.started
    /\ shared.v[i].pc = "new"
    /\ LET c == shared.dict
       IN shared' = [shared EXCEPT !.v[i] =
             IF MissingField(c) # "" \/ ~Truthy(c["api_token"]) \/ c["api_token"].type # "str"
             THEN [@ EXCEPT !.pc = "raised", !.exc = ValidateCredentialsStructure(c).exc]
             ELSE [@ EXCEPT !.pc = "have_token", !.api_token = c["api_token"].val]]
    /\ UNCHANGED <<valVars, apiVars, factoryVars, pair, readers, masked>>

\* canvas_validator.py 58-69: the trimmed token is written back when it differs,
\* then its length is tested
CtorWriteToken(i) ==
    /\ shared.v[i].pc = "have_token"
    /\ LET api_token == shared.v[i].api_token
           api_token_stripped == Strip(api_token)
           d == IF api_token_stripped # api_token
                THEN SetField(shared.dict, "api_token", Str(api_token_stripped))
                ELSE shared.dict
       IN shared' = [shared EXCEPT
             !.dict = d,
             !.v[i] = IF Len(api_token_stripped) < MinTokenLength
                      THEN [@ EXCEPT !.pc = "raised",
                                     !.exc = ValidateCredentialsStructure(d).exc]
                      ELSE [@ EXCEPT !.pc = "token_done", !.api_token = api_token_stripped]]
    /\ UNCHANGED <<valVars, apiVars, factoryVars, pair, readers, masked>>

\* canvas_validator.py 71-75: the read of base_url and the test of its prefix
CtorReadUrl(i) ==
    /\ shared.v[i].pc = "token_done"
    /\ LET base_url == shared.dict["base_url"]
           e == ValidateCredentialsStructure(Bundle(base_url, Str(shared.v[i].api_token))).exc
       IN shared' = [shared EXCEPT !.v[i] =
             IF e # NoExc
             THEN [@ EXCEPT !.pc = "raised", !.exc = e]
             ELSE [@ EXCEPT !.pc = "have_url", !.base_url = base_url.val]]
    /\ UNCHANGED <<valVars, apiVars, factoryVars, pair, readers, masked>>

\* canvas_validator.py 78-83: the cleaned URL is written back
CtorWriteUrl(i) ==
    /\ shared.v[i].pc = "have_url"
    /\ shared' = [shared EXCEPT
          !.dict = SetField(@, "base_url", Str(RStrip(shared.v[i].base_url, {"/"}))),
          !.v[i] = [@ EXCEPT !.pc = "ready"]]
    /\ UNCHANGED <<valVars, apiVars, factoryVars, pair, readers, masked>>

\* the run of validate() by validator x as it stands, on the dict as it is now
RunOf(x) == [creds |-> shared.dict, pc |-> x.pc, result |-> x.result]

Advanced(x, run) ==
    [x EXCEPT !.pc = run.pc, !.result = run.result, !.reads = @ \cup {shared.dict}]

\* validate(), step 1 (base.py 78-86; the dict is read at canvas_validator.py 95-96)
SharedTestConnection(i) ==
    /\ shared.v[i].pc = "ready"
    /\ \E u \in SharedCallOutcomes :
        shared' = [shared EXCEPT !.v[i] =
                      Advanced(@, RunTestConnection(RunOf(shared.v[i]), "ok", u))]
    /\ UNCHANGED <<valVars, apiVars, factoryVars, pair, readers, masked>>

\* validate(), step 2 (base.py 88-96; the dict is read at canvas_validator.py 155-156)
SharedCheckPermissions(i) ==
    /\ shared.v[i].pc = "perm"
    /\ \E co \in SharedListOutcomes, st \in SharedListOutcomes, asg \in SharedListOutcomes :
        shared' = [shared EXCEPT !.v[i] =
                      Advanced(@, RunCheckPermissions(RunOf(shared.v[i]), "ok", co, st, asg))]
    /\ UNCHANGED <<valVars, apiVars, factoryVars, pair, readers, masked>>

\* validate(), step 3 (base.py 98-105; the dict is read at canvas_validator.py 237-238)
SharedGetConnectionMetadata(i) ==
    /\ shared.v[i].pc = "meta"
    /\ \E u \in SharedCallOutcomes, ac \in SharedListOutcomes :
        shared' = [shared EXCEPT !.v[i] =
                      Advanced(@, RunGetConnectionMetadata(RunOf(shared.v[i]), "ok", u, ac))]
    /\ UNCHANGED <<valVars, apiVars, factoryVars, pair, readers, masked>>

NextShared ==
    \/ SharedBegin
    \/ \E i \in ValidatorIds : CtorReadToken(i)
    \/ \E i \in ValidatorIds : CtorWriteToken(i)
    \/ \E i \in ValidatorIds : CtorReadUrl(i)
    \/ \E i \in ValidatorIds : CtorWriteUrl(i)
    \/ \E i \in ValidatorIds : SharedTestConnection(i)
    \/ \E i \in ValidatorIds : SharedCheckPermissions(i)
    \/ \E i \in ValidatorIds : SharedGetConnectionMetadata(i)

SpecShared == Init /\ [][NextShared]_vars

\* the validator's constructor has raised or its validate() has returned
Finished(i) == shared.v[i].pc \in {"raised", "done"}

\* construction on the dict as it was handed over, and construction on what that
\* one leaves behind
FirstAlone == ValidateCredentialsStructure(shared.input)
SecondAlone == ValidateCredentialsStructure(FirstAlone.creds)

\* C25: distinct validator instances share no mutable state: two validators
\* constructed from the same credential bundle and run concurrently, in any
\* interleaving of their construction and validate() steps, end with the same
\* bundle contents and the same outcomes as when they are run one after the other,
\* and their validate() steps work on the bundle that run leaves.
C25_ConcurrentAsSequential ==
    (shared.started /\ \A i \in ValidatorIds : Finished(i)) =>
        \E i, j \in ValidatorIds :
            /\ i # j
            /\ shared.v[i].exc = FirstAlone.exc
            /\ shared.v[j].exc = SecondAlone.exc
            /\ shared.dict = SecondAlone.creds
            /\ shared.v[i].reads \subseteq {FirstAlone.creds}
            /\ shared.v[j].reads \subseteq {SecondAlone.creds}

====
